---- MODULE Spec2Model ----
(***************************************************************************)
(* ChatGPT Queue content script (src/chatgpt_queue/content_script.js) as a *)
(* state machine: the prompt queue and its persisted copy, the generation  *)
(* monitor (MutationObserver callback and its 150 ms timers), the Alt+Enter *)
(* key handler, the panel's click handlers and the page around them.       *)
(* Every handler runs to completion on the page's single event loop, so    *)
(* each one is one action.                                                 *)
(***************************************************************************)
EXTENDS Integers, Sequences, FiniteSets, TLC

\* ------------------------------------------------------------------ bounds
\* Observation ticks (MutationObserver callbacks) in one behaviour whose
\* verdict differs from the tick before.
MaxObs == 4
\* Prompts accepted in one behaviour, those loaded from storage included.
MaxItems == 2
\* storage.set calls whose callback has not run yet.
MaxWrites == 1
\* Milliseconds by which one step of the clock advances the time.
Quantum == 150

\* ------------------------------------------------------- program constants
\* The delay of the timer the observer sets when generation ends.
SettleDelay == 150

\* -------------------------------------------------------------------- text
\* A text is a sequence of characters; SP and NL are whitespace.
SP == " "
NL == "\n"
Whitespace == {SP, NL}

RECURSIVE TrimStart(_)
TrimStart(s) ==
  IF s # <<>> /\ Head(s) \in Whitespace THEN TrimStart(Tail(s)) ELSE s

RECURSIVE TrimEnd(_)
TrimEnd(s) ==
  IF s # <<>> /\ s[Len(s)] \in Whitespace
  THEN TrimEnd(SubSeq(s, 1, Len(s) - 1))
  ELSE s

\* String.prototype.trim
Trim(s) == TrimEnd(TrimStart(s))

\* What the user may type into the editor: nothing, blanks only, a text with
\* blanks around it (the plain text comes back into the editor by an edit).
TypedTexts == {<<>>, <<SP>>, <<SP, "a", NL>>}

\* --------------------------------------------------------------- the page
\* What one heuristic of isGenerating() meets in the document: nothing that
\* matches, something that matches, or an element whose inspection throws
\* before a match is found.
Evidence == {"no", "yes", "err"}

\* The evidence isGenerating() looks for in the document, one field per
\* heuristic: a Stop button, a role=status text, visible dots, an animated
\* element, a data-streaming/data-generating attribute.
Heuristics == {"stop", "status", "dots", "anim", "marker"}
Snapshots == [Heuristics -> Evidence]

\* The documents of the page the program runs in: nothing matches, or a Stop
\* button is there.
Quiet == [h \in Heuristics |-> "no"]
DomStates ==
  { Quiet, [Quiet EXCEPT !.stop = "yes"] }

\* What findEditor() finds in the document: no editor, an editor inside a
\* form, an editor outside any form.
Surfaces == {"none", "inForm", "noForm"}

\* The store's content under STORAGE_KEY: <<>> when nothing was stored under
\* it (storage.get yields undefined), <<q>> when the array q was.
NoValue == <<>>

VARIABLES
  queue,          \* let queue: the prompts, each with the rank of its acceptance
  stored,         \* the value under STORAGE_KEY in chrome.storage.local
  writes,         \* storage.set calls in flight, oldest first
  wasGenerating,  \* let wasGenerating
  timers,         \* pending setTimeout callbacks, oldest first
  collapsed,      \* let collapsed
  attached,       \* the panel is in the document (attachPanel succeeded)
  dom,            \* the evidence now in the document
  surface,        \* the editor now in the document
  input,          \* the editor's text
  nextId,         \* history: rank the next accepted prompt gets
  obs,            \* history: the ticks whose verdict differed from the tick
                  \*   before (the first: from idle), each with its verdict
                  \*   and whether the queue held a prompt then
  fires,          \* history: the timer callbacks run so far, each with the
                  \*   prompt it took (0: none), the time since it was set
                  \*   and the texts it had submitted (none or one)
  busySincePop,   \* history: a tick saw BUSY since the last prompt was taken
  lastMut,        \* history: the last operation that changed the queue
  tornDown        \* history: the page has asked the monitor to stop

vars == <<queue, stored, writes, wasGenerating, timers, collapsed, attached,
          dom, surface, input, nextId, obs, fires, busySincePop, lastMut, tornDown>>

\* ------------------------------------------------------------ pure helpers
\* isGenerating(): the heuristics in the order of the code, true as soon as
\* one matches. The callbacks of heuristics 3 and 4 catch what an element
\* throws and count it as no match; what heuristics 1, 2 and 5 throw reaches
\* the catch around the whole body, which returns false.
isGenerating(d) ==
  IF d.stop = "err" THEN FALSE
  ELSE IF d.stop = "yes" THEN TRUE
  ELSE IF d.status = "err" THEN FALSE
  ELSE IF d.status = "yes" THEN TRUE
  ELSE IF d.dots = "yes" THEN TRUE
  ELSE IF d.anim = "yes" THEN TRUE
  ELSE IF d.marker = "err" THEN FALSE
  ELSE d.marker = "yes"

\* findEditor() !== null
hasEditor(s) == s # "none"

\* editor.closest('form') !== null
hasForm(s) == s = "inForm"

\* loadQueue: queue = Array.isArray(stored) ? stored : []
loadQueue(v) == IF v = NoValue THEN <<>> ELSE v[1]

\* queue.splice(index, 1), index counted from 1
splice(q, i) == SubSeq(q, 1, i - 1) \o SubSeq(q, i + 1, Len(q))

\* saveQueue(): storage.set({[STORAGE_KEY]: queue}) with the queue as it is
\* at the call; the store takes the value when the call completes.
saveQueue(w, q) == Append(w, q)

\* setTimeout as if the delay were dropped: the callback may run at once.
setTimeout_NoDelay(ts, delay) == Append(ts, [left |-> 0, age |-> 0, flipped |-> FALSE])

\* setTimeout(callback, delay): the callback may run once `left` is 0.
setTimeout(ts, delay) == Append(ts, [left |-> delay, age |-> 0, flipped |-> FALSE])

\* The observer's test as if it read `wasGenerating !== gen`.
becameIdle_AnyChange(was, gen) == was # gen

\* The observer's test as if it read `!gen` alone.
becameIdle_AnyIdle(was, gen) == ~gen

\* The observer's test `wasGenerating && !gen`.
becameIdle(was, gen) == was /\ ~gen

\* addToQueue as if it called queue.unshift(text).
addToQueue_Unshift(q, w, item) ==
  [queue |-> <<item>> \o q, writes |-> saveQueue(w, <<item>> \o q)]

\* addToQueue(text): queue.push(text); saveQueue().
addToQueue(q, w, item) ==
  [queue |-> Append(q, item), writes |-> saveQueue(w, Append(q, item))]

\* removeAt as if it had no test of the index: splice counts an index below
\* the first from the end of the array and removes nothing past the end, and
\* the queue is saved all the same.
removeAt_NoBoundsCheck(q, w, index, save) ==
  LET at == IF index < 1 THEN Len(q) + index ELSE index
      rest == IF at \in DOMAIN q THEN splice(q, at) ELSE q
  IN [queue |-> rest, writes |-> IF save THEN saveQueue(w, rest) ELSE w]

\* removeAt as if it never called saveQueue().
removeAt_NeverSaves(q, w, index, save) ==
  IF index >= 1 /\ index <= Len(q)
  THEN [queue |-> splice(q, index), writes |-> w]
  ELSE [queue |-> q, writes |-> w]

\* removeAt(index, save): the queue and the writes in flight after it.
removeAt(q, w, index, save) ==
  IF index >= 1 /\ index <= Len(q)
  THEN [queue |-> splice(q, index),
        writes |-> IF save THEN saveQueue(w, splice(q, index)) ELSE w]
  ELSE [queue |-> q, writes |-> w]

\* loadIntoInput as if it always replaced the editor's text.
loadIntoInput_Overwrites(s, existing, text) ==
  IF ~hasEditor(s) THEN existing ELSE text

\* loadIntoInput(text): the editor's text after it.
loadIntoInput(s, existing, text) ==
  IF ~hasEditor(s) THEN existing
  ELSE IF Len(Trim(existing)) > 0 THEN existing \o <<NL, NL>> \o text
  ELSE text

\* sendNextPrompt as if it returned once the text is in the editor: nothing
\* is submitted.
sendNextPrompt_NoSubmit(q, w, s, text) ==
  IF Len(q) = 0
  THEN [queue |-> q, writes |-> w, input |-> text, took |-> 0, submitted |-> <<>>]
  ELSE [queue |-> Tail(q),
        writes |-> saveQueue(w, Tail(q)),
        input |-> IF hasEditor(s) THEN Head(q).text ELSE text,
        took |-> Head(q).id,
        submitted |-> <<>>]

\* sendNextPrompt as if it did not return on an empty queue: it saves the
\* queue, writes the value shift() gave (none) to the editor and submits.
sendNextPrompt_NoEmptyCheck(q, w, s, text) ==
  IF Len(q) = 0
  THEN [queue |-> q,
        writes |-> saveQueue(w, q),
        input |-> IF hasEditor(s) THEN <<>> ELSE text,
        took |-> 0,
        submitted |-> IF hasEditor(s) THEN << <<>> >> ELSE <<>>]
  ELSE [queue |-> Tail(q),
        writes |-> saveQueue(w, Tail(q)),
        input |-> IF hasEditor(s) THEN Head(q).text ELSE text,
        took |-> Head(q).id,
        submitted |-> IF hasEditor(s) THEN <<Head(q).text>> ELSE <<>>]

\* sendNextPrompt as if it called queue.pop(): it takes the last prompt.
sendNextPrompt_TakesLast(q, w, s, text) ==
  IF Len(q) = 0
  THEN [queue |-> q, writes |-> w, input |-> text, took |-> 0, submitted |-> <<>>]
  ELSE LET next == q[Len(q)]
           rest == SubSeq(q, 1, Len(q) - 1)
       IN [queue |-> rest,
           writes |-> saveQueue(w, rest),
           input |-> IF hasEditor(s) THEN next.text ELSE text,
           took |-> next.id,
           submitted |-> IF hasEditor(s) THEN <<next.text>> ELSE <<>>]

\* sendNextPrompt(): the queue, the writes in flight and the editor's text
\* after it, the prompt it took (0: none) and what it submitted. Whichever
\* control it finds (the form's submit button, the form's submit event, a
\* send button of the document, the Enter key), it triggers one submission
\* of the editor's text.
sendNextPrompt(q, w, s, text) ==
  IF Len(q) = 0
  THEN [queue |-> q, writes |-> w, input |-> text, took |-> 0, submitted |-> <<>>]
  ELSE LET next == Head(q)
           rest == Tail(q)
       IN [queue |-> rest,
           writes |-> saveQueue(w, rest),
           input |-> IF hasEditor(s) THEN next.text ELSE text,
           took |-> next.id,
           submitted |-> IF hasEditor(s) THEN <<next.text>> ELSE <<>>]

\* onKeyDown as if it did not call setEditorText(editor, '').
onKeyDown_KeepsText(s, gen, text, q, w, id) ==
  IF ~hasEditor(s) THEN [queue |-> q, writes |-> w, input |-> text, queued |-> FALSE]
  ELSE IF ~gen THEN [queue |-> q, writes |-> w, input |-> text, queued |-> FALSE]
  ELSE IF Trim(text) = <<>> THEN [queue |-> q, writes |-> w, input |-> text, queued |-> FALSE]
  ELSE [queue |-> Append(q, [id |-> id, text |-> Trim(text)]),
        writes |-> saveQueue(w, Append(q, [id |-> id, text |-> Trim(text)])),
        input |-> text, queued |-> TRUE]

\* onKeyDown as if it did not trim the editor's text.
onKeyDown_NoTrim(s, gen, text, q, w, id) ==
  IF ~hasEditor(s) THEN [queue |-> q, writes |-> w, input |-> text, queued |-> FALSE]
  ELSE IF ~gen THEN [queue |-> q, writes |-> w, input |-> text, queued |-> FALSE]
  ELSE IF text = <<>> THEN [queue |-> q, writes |-> w, input |-> text, queued |-> FALSE]
  ELSE [queue |-> Append(q, [id |-> id, text |-> text]),
        writes |-> saveQueue(w, Append(q, [id |-> id, text |-> text])),
        input |-> <<>>, queued |-> TRUE]

\* onKeyDown as if it did not ask isGenerating().
onKeyDown_NoVerdict(s, gen, text, q, w, id) ==
  IF ~hasEditor(s) THEN [queue |-> q, writes |-> w, input |-> text, queued |-> FALSE]
  ELSE IF Trim(text) = <<>> THEN [queue |-> q, writes |-> w, input |-> text, queued |-> FALSE]
  ELSE [queue |-> Append(q, [id |-> id, text |-> Trim(text)]),
        writes |-> saveQueue(w, Append(q, [id |-> id, text |-> Trim(text)])),
        input |-> <<>>, queued |-> TRUE]

\* onKeyDown(e) for Alt+Enter, `gen` being what isGenerating() returns: the
\* queue, the writes in flight and the editor's text after it, and whether
\* the text was queued.
onKeyDown(s, gen, text, q, w, id) ==
  IF ~hasEditor(s) THEN [queue |-> q, writes |-> w, input |-> text, queued |-> FALSE]
  ELSE IF ~gen THEN [queue |-> q, writes |-> w, input |-> text, queued |-> FALSE]
  ELSE IF Trim(text) = <<>> THEN [queue |-> q, writes |-> w, input |-> text, queued |-> FALSE]
  ELSE LET added == addToQueue(q, w, [id |-> id, text |-> Trim(text)])
       IN [queue |-> added.queue, writes |-> added.writes, input |-> <<>>, queued |-> TRUE]

\* What storage may hold at start-up: nothing, or a queue an earlier run
\* saved (its prompts trimmed and not empty).
StoredAtStart == {NoValue, << <<>> >>, << <<[id |-> 1, text |-> <<"a">>]>> >>}

\* The state once init() has run: loadQueue(), createPanel(), the listeners
\* and the observer set up.
Init ==
  /\ stored \in StoredAtStart
  /\ queue = loadQueue(stored)
  /\ writes = <<>>
  /\ wasGenerating = FALSE
  /\ timers = <<>>
  /\ collapsed = TRUE
  /\ attached = FALSE
  /\ dom \in DomStates
  /\ surface \in Surfaces
  /\ input = <<>>
  /\ nextId = Len(queue) + 1
  /\ obs = <<>>
  /\ fires = <<>>
  /\ busySincePop = FALSE
  /\ lastMut = "none"
  /\ tornDown = FALSE

\* ------------------------------------------------------- the environment
\* The host page changes the document.
DomMutation ==
  /\ \E d \in DomStates \ {dom} : dom' = d
  /\ UNCHANGED <<queue, stored, writes, wasGenerating, timers, collapsed, attached,
                 surface, input, nextId, obs, fires, busySincePop, lastMut, tornDown>>

\* The host page replaces, adds or removes the editor and its form.
SurfaceChange ==
  /\ \E s \in Surfaces \ {surface} :
       /\ surface' = s
       /\ input' = IF hasEditor(surface) /\ hasEditor(s) THEN input ELSE <<>>
  /\ UNCHANGED <<queue, stored, writes, wasGenerating, timers, collapsed, attached,
                 dom, nextId, obs, fires, busySincePop, lastMut, tornDown>>

\* The user (or the host page) changes the editor's text.
UserType ==
  /\ hasEditor(surface)
  /\ \E t \in TypedTexts \ {input} : input' = t
  /\ UNCHANGED <<queue, stored, writes, wasGenerating, timers, collapsed, attached,
                 dom, surface, nextId, obs, fires, busySincePop, lastMut, tornDown>>

\* chrome.storage.local.set completes: the store takes the value of the
\* oldest call in flight.
WriteDone ==
  /\ writes # <<>>
  /\ stored' = <<Head(writes)>>
  /\ writes' = Tail(writes)
  /\ UNCHANGED <<queue, wasGenerating, timers, collapsed, attached, dom, surface,
                 input, nextId, obs, fires, busySincePop, lastMut, tornDown>>

\* Time passes.
Advance ==
  /\ \E i \in DOMAIN timers : timers[i].left > 0
  /\ timers' = [i \in DOMAIN timers |->
                  [timers[i] EXCEPT
                     !.left = IF @ > Quantum THEN @ - Quantum ELSE 0,
                     !.age = IF @ + Quantum < SettleDelay THEN @ + Quantum ELSE SettleDelay]]
  /\ UNCHANGED <<queue, stored, writes, wasGenerating, collapsed, attached, dom,
                 surface, input, nextId, obs, fires, busySincePop, lastMut, tornDown>>

\* ------------------------------------------------------------ the monitor
\* The MutationObserver callback of observeGeneration.
ObserverTick ==
  LET gen == isGenerating(dom)
      seen == [i \in DOMAIN timers |->
                 [timers[i] EXCEPT !.flipped = @ \/ (gen /\ timers[i].left > 0)]]
  IN /\ gen # wasGenerating => Len(obs) < MaxObs
     /\ timers' = IF becameIdle(wasGenerating, gen) /\ Len(queue) > 0
                  THEN setTimeout(seen, SettleDelay)
                  ELSE seen
     /\ wasGenerating' = gen
     /\ obs' = IF gen # wasGenerating
               THEN Append(obs, [gen |-> gen, queued |-> Len(queue) > 0])
               ELSE obs
     /\ busySincePop' = (busySincePop \/ gen)
     /\ UNCHANGED <<queue, stored, writes, collapsed, attached, dom, surface, input,
                    nextId, fires, lastMut, tornDown>>

\* The oldest timer's callback, once its delay has passed: sendNextPrompt().
TimerFire ==
  /\ timers # <<>>
  /\ Head(timers).left = 0
  /\ LET r == sendNextPrompt(queue, writes, surface, input)
     IN /\ Len(r.writes) <= MaxWrites
        /\ queue' = r.queue
        /\ writes' = r.writes
        /\ input' = r.input
        /\ fires' = Append(fires, [id |-> r.took, age |-> Head(timers).age,
                                    submitted |-> r.submitted])
        /\ busySincePop' = IF r.took # 0 THEN FALSE ELSE busySincePop
        /\ lastMut' = IF r.queue # queue THEN "dispatch" ELSE lastMut
  /\ timers' = Tail(timers)
  /\ UNCHANGED <<stored, wasGenerating, collapsed, attached, dom, surface, nextId, obs,
                 tornDown>>

\* --------------------------------------------------------- the key handler
\* The keydown listener, for Alt+Enter.
KeyDown ==
  LET r == onKeyDown(surface, isGenerating(dom), input, queue, writes, nextId)
  IN /\ r.queued => nextId <= MaxItems /\ Len(r.writes) <= MaxWrites
     /\ queue' = r.queue
     /\ writes' = r.writes
     /\ input' = r.input
     /\ nextId' = IF r.queued THEN nextId + 1 ELSE nextId
     /\ lastMut' = IF r.queued THEN "submit" ELSE lastMut
     /\ UNCHANGED <<stored, wasGenerating, timers, collapsed, attached, dom, surface,
                    obs, fires, busySincePop, tornDown>>

\* ---------------------------------------------------------------- the panel
\* The interval of init(): attachPanel() puts the panel before the editor's
\* form and the interval ends.
AttachPanel ==
  /\ ~attached
  /\ hasEditor(surface) /\ hasForm(surface)
  /\ attached' = TRUE
  /\ UNCHANGED <<queue, stored, writes, wasGenerating, timers, collapsed, dom,
                 surface, input, nextId, obs, fires, busySincePop, lastMut, tornDown>>

\* Click on .cgq-toggle, shown while the queue is not empty.
ToggleClick ==
  /\ attached /\ Len(queue) > 0
  /\ collapsed' = ~collapsed
  /\ UNCHANGED <<queue, stored, writes, wasGenerating, timers, attached, dom,
                 surface, input, nextId, obs, fires, busySincePop, lastMut, tornDown>>

\* Click on .cgq-collapse, in the footer of the expanded list.
CollapseClick ==
  /\ attached /\ ~collapsed /\ Len(queue) > 0
  /\ collapsed' = TRUE
  /\ UNCHANGED <<queue, stored, writes, wasGenerating, timers, attached, dom,
                 surface, input, nextId, obs, fires, busySincePop, lastMut, tornDown>>

\* Click on the edit button of row idx of the expanded list:
\* loadIntoInput(item); removeAt(idx, false).
EditClick ==
  /\ attached /\ ~collapsed
  /\ \E idx \in DOMAIN queue :
       /\ input' = loadIntoInput(surface, input, queue[idx].text)
       /\ queue' = removeAt(queue, writes, idx, FALSE).queue
       /\ writes' = removeAt(queue, writes, idx, FALSE).writes
  /\ lastMut' = "edit"
  /\ UNCHANGED <<stored, wasGenerating, timers, collapsed, attached, dom, surface,
                 nextId, obs, fires, busySincePop, tornDown>>

\* Click on the delete button of row idx: removeAt(idx, true).
DeleteClick ==
  /\ attached /\ ~collapsed
  /\ \E idx \in DOMAIN queue :
       /\ Len(removeAt(queue, writes, idx, TRUE).writes) <= MaxWrites
       /\ queue' = removeAt(queue, writes, idx, TRUE).queue
       /\ writes' = removeAt(queue, writes, idx, TRUE).writes
  /\ lastMut' = "delete"
  /\ UNCHANGED <<stored, wasGenerating, timers, collapsed, attached, dom, surface,
                 input, nextId, obs, fires, busySincePop, tornDown>>

Next ==
  \/ DomMutation
  \/ SurfaceChange
  \/ UserType
  \/ WriteDone
  \/ Advance
  \/ ObserverTick
  \/ TimerFire
  \/ KeyDown
  \/ AttachPanel
  \/ ToggleClick
  \/ CollapseClick
  \/ EditClick
  \/ DeleteClick

Spec == Init /\ [][Next]_vars

\* The event loop runs a timer's callback once its delay has passed, time
\* passes, and a storage write in flight completes.
SpecLive ==
  /\ Init
  /\ [][Next]_vars
  /\ WF_vars(Advance)
  /\ WF_vars(TimerFire)
  /\ WF_vars(WriteDone)

\* ------------------------------------------------------- the page's life
\* The page asks for the monitor to be stopped (it is about to discard the
\* view the monitor watches). observeGeneration() returns nothing, keeps the
\* observer in a local constant and keeps no timer handle: the program has
\* no operation that calls observer.disconnect() or clearTimeout(), so the
\* request changes nothing in it.
Teardown ==
  /\ ~tornDown
  /\ tornDown' = TRUE
  /\ UNCHANGED <<queue, stored, writes, wasGenerating, timers, collapsed, attached,
                 dom, surface, input, nextId, obs, fires, busySincePop, lastMut>>

NextTeardown ==
  \/ Next
  \/ Teardown

\* The program in a page that may ask for the monitor to be stopped.
SpecTeardown == Init /\ [][NextTeardown]_vars

\* The page is reloaded: the script's context is discarded with its queue,
\* its timers and its observer, and init() runs in the new page. A
\* storage.set call whose callback has not run when the context goes is not
\* awaited by anything: it may have reached the store or not (the calls
\* reach it in order). loadQueue() then reads what the store holds.
Reload ==
  /\ \E k \in 0..Len(writes) :
       /\ stored' = IF k = 0 THEN stored ELSE <<writes[k]>>
       /\ queue' = loadQueue(IF k = 0 THEN stored ELSE <<writes[k]>>)
  /\ writes' = <<>>
  /\ wasGenerating' = FALSE
  /\ timers' = <<>>
  /\ collapsed' = TRUE
  /\ attached' = FALSE
  /\ dom' \in DomStates
  /\ surface' \in Surfaces
  /\ input' = <<>>
  /\ obs' = <<>>
  /\ fires' = <<>>
  /\ busySincePop' = FALSE
  /\ lastMut' = "none"
  /\ tornDown' = FALSE
  /\ UNCHANGED nextId

NextReload ==
  \/ Next
  \/ Reload

\* The program over page reloads.
SpecReload == Init /\ [][NextReload]_vars

\* ----------------------------------------------- the monitor on any page
\* The program started in a page with any evidence.
InitEvidence ==
  /\ stored \in StoredAtStart
  /\ queue = loadQueue(stored)
  /\ writes = <<>>
  /\ wasGenerating = FALSE
  /\ timers = <<>>
  /\ collapsed = TRUE
  /\ attached = FALSE
  /\ dom \in Snapshots
  /\ surface \in Surfaces
  /\ input = <<>>
  /\ nextId = Len(queue) + 1
  /\ obs = <<>>
  /\ fires = <<>>
  /\ busySincePop = FALSE
  /\ lastMut = "none"
  /\ tornDown = FALSE

\* The host page changes the document, to any evidence.
SnapshotChange ==
  /\ \E d \in Snapshots \ {dom} : dom' = d
  /\ UNCHANGED <<queue, stored, writes, wasGenerating, timers, collapsed, attached,
                 surface, input, nextId, obs, fires, busySincePop, lastMut, tornDown>>

NextEvidence ==
  \/ SnapshotChange
  \/ ObserverTick

\* The monitor alone, over every document isGenerating() can meet.
SpecEvidence == InitEvidence /\ [][NextEvidence]_vars

\* ------------------------------------------------------------------ claims
\* The prompts the timer callbacks took, in the order they took them.
Popped == SelectSeq(fires, LAMBDA f : f.id # 0)

\* The texts the submission trigger submitted, in order.
Submitted == SelectSeq(fires, LAMBDA f : f.submitted # <<>>)

\* The ticks that saw generation end (BUSY before, IDLE now).
Edges == {i \in DOMAIN obs : ~obs[i].gen}

\* A step in which a timer callback runs sendNextPrompt().
FireStep == Len(fires') = Len(fires) + 1

\* C1: Debounce. When the monitor sees BUSY, then IDLE, then BUSY again before
\* the 150 ms of that IDLE tick have passed, the pending emission is
\* cancelled: the timer set at that IDLE tick never runs sendNextPrompt().
C1_DebounceCancels == [][FireStep => ~Head(timers).flipped]_vars

\* C2: Alt+Enter appends to the queue only if isGenerating() is true at the
\* call; when it is false the key press leaves the queue as it is.
C2_SubmitOnlyWhileBusy ==
  [][/\ (~isGenerating(dom) /\ queue' # queue) => ~KeyDown
     /\ Len(queue') > Len(queue) => isGenerating(dom)]_vars

\* A key press was accepted under BUSY, and now, under IDLE, the editor holds
\* a text a key press would queue if the verdict were BUSY: pressing Alt+Enter
\* here leaves this state as it is.
C2_Witness ==
  /\ ~isGenerating(dom)
  /\ hasEditor(surface)
  /\ Trim(input) # <<>>
  /\ lastMut = "submit"
  /\ nextId <= MaxItems
  /\ ENABLED KeyDown

\* C3: FIFO. The queue holds its prompts in the order they were accepted, the
\* prompts taken for dispatch were taken in the order they were accepted, and
\* no prompt was taken while one accepted before it was still queued.
C3_Fifo ==
  /\ \A i, j \in DOMAIN queue : i < j => queue[i].id < queue[j].id
  /\ \A i, j \in DOMAIN Popped : i < j => Popped[i].id < Popped[j].id
  /\ \A i \in DOMAIN Popped : \A j \in DOMAIN queue : Popped[i].id < queue[j].id
  /\ \A i \in DOMAIN queue : queue[i].id < nextId

\* Two prompts were dispatched, the one accepted first first.
C3_Witness ==
  /\ Len(Submitted) = 2
  /\ Len(Popped) = 2
  /\ Popped[1].id = 1 /\ Popped[2].id = 2

\* C4: At most one prompt in flight. Once a prompt was dispatched, no second
\* prompt is dispatched until a tick has seen BUSY after that dispatch.
C4_OneInFlight ==
  [][(FireStep /\ fires'[Len(fires')].id # 0 /\ Popped # <<>>) => busySincePop]_vars

\* C5: A dispatch attempted while no editor can be found leaves the queue as
\* it is, its head still at index 0.
C5_NoEditorKeepsQueue == [][(FireStep /\ ~hasEditor(surface)) => queue' = queue]_vars

\* C6, as claimed: whenever no write is in flight, the sequence the store
\* holds under the queue key is the queue in memory.
C6_StoreEqualsQueue == writes = <<>> => loadQueue(stored) = queue

\* C6, amended: whenever no write is in flight and the last operation that
\* changed the queue is an accepted submit, a delete or a dispatch, the store
\* holds the queue in memory; when it is an edit, which removes the prompt in
\* memory only, the store holds another sequence.
C6_WriteThrough ==
  writes = <<>> =>
    /\ lastMut \in {"submit", "delete", "dispatch"} => stored = <<queue>>
    /\ lastMut = "edit" => stored # <<queue>>

\* A prompt was deleted from a queue of two and the write has completed.
C6_Witness ==
  /\ lastMut = "delete"
  /\ writes = <<>>
  /\ Len(queue) = 1
  /\ stored = <<queue>>

\* The ticks so far saw BUSY (once or more), then IDLE (once or more), the
\* queue holding a prompt at the first IDLE one.
OneEdge == Len(obs) = 2 /\ obs[1].gen /\ ~obs[2].gen /\ obs[2].queued

\* C7: Edge emission. After ticks BUSY, BUSY, IDLE, IDLE with a prompt queued,
\* one timer callback and no more is set or has run, it runs no earlier than
\* the settle delay after the tick that saw generation end, and at most one
\* prompt is dispatched.
C7_EdgeEmission ==
  OneEdge =>
    /\ Len(timers) + Len(fires) = 1
    /\ \A i \in DOMAIN fires : fires[i].age >= SettleDelay
    /\ Len(Popped) <= 1

\* After BUSY then IDLE ticks the one callback has run and dispatched the
\* queued prompt.
C7_Witness ==
  /\ OneEdge
  /\ timers = <<>>
  /\ Len(fires) = 1
  /\ fires[1].id = 1
  /\ fires[1].submitted = << <<"a">> >>
  /\ ~wasGenerating

\* C8: At most one send per edge. The prompts taken for dispatch so far are no
\* more than the ticks that saw generation end so far.
C8_OneSendPerEdge == Len(Popped) <= Cardinality(Edges)

\* Two ticks saw generation end and two prompts were taken.
C8_Witness == Cardinality(Edges) = 2 /\ Len(Popped) = 2

\* C9: Dispatch effect. A timer callback that finds a prompt queued and an
\* editor removes the prompt at index 0, writes exactly its text into the
\* editor and triggers one submission of it; the other prompts keep their
\* order and the queue is one shorter.
C9_DispatchEffect ==
  [][(FireStep /\ Len(queue) > 0 /\ hasEditor(surface)) =>
       /\ queue' = Tail(queue)
       /\ Len(queue') = Len(queue) - 1
       /\ input' = Head(queue).text
       /\ fires'[Len(fires')].id = Head(queue).id
       /\ fires'[Len(fires')].submitted = <<Head(queue).text>>]_vars

\* The first of two queued prompts was dispatched: its text is in the editor
\* and was submitted, the second is now at index 0.
C9_Witness ==
  /\ lastMut = "dispatch"
  /\ Len(fires) = 1
  /\ fires[1].id = 1
  /\ fires[1].submitted = <<input>>
  /\ Len(queue) = 1
  /\ queue[1].id = 2

\* A timer set at a tick that saw generation end is pending, prompt k is at
\* the head of the queue, the verdict is IDLE and there is an editor.
AtEdge(k) ==
  /\ timers # <<>>
  /\ queue # <<>> /\ Head(queue).id = k
  /\ ~isGenerating(dom)
  /\ hasEditor(surface)

\* Prompt k was taken from the queue, written to the editor and submitted.
Dispatched(k) == \E i \in DOMAIN fires : fires[i].id = k /\ fires[i].submitted # <<>>

\* Prompt k left the queue by a click on its delete or edit button.
RemovedByUser(k) ==
  /\ k < nextId
  /\ \A i \in DOMAIN queue : queue[i].id # k
  /\ \A i \in DOMAIN fires : fires[i].id # k

\* C10, as claimed: once a tick saw generation end with prompt k at the head
\* of the queue, k is eventually dispatched, unless the verdict turns BUSY or
\* the editor goes away.
C10_HeadEventuallySent ==
  \A k \in 1..MaxItems :
    AtEdge(k) ~> (Dispatched(k) \/ isGenerating(dom) \/ ~hasEditor(surface))

\* C10, amended: ... unless the verdict turns BUSY, the editor goes away or
\* the user deletes or edits k first.
C10_HeadSentUnlessRemoved ==
  \A k \in 1..MaxItems :
    AtEdge(k) ~>
      (Dispatched(k) \/ isGenerating(dom) \/ ~hasEditor(surface) \/ RemovedByUser(k))

\* The prompt at the head when generation ended was dispatched while the
\* verdict stayed IDLE: its text is in the editor and the queue is empty.
C10_Witness ==
  /\ Dispatched(1)
  /\ Len(obs) = 2
  /\ ~isGenerating(dom)
  /\ hasEditor(surface)
  /\ input = <<"a">>
  /\ queue = <<>>
  /\ writes = <<>>

\* C11: Teardown. Once the monitor was asked to stop, no callback runs: no
\* observation tick is processed (the remembered verdict and the record of
\* ticks stay as they are, no timer is set) and no timer callback runs
\* sendNextPrompt().
C11_NoCallbackAfterTeardown ==
  [][tornDown =>
       /\ wasGenerating' = wasGenerating
       /\ obs' = obs
       /\ Len(timers') <= Len(timers)
       /\ fires' = fires]_vars

\* A step in which a click on an edit button removes a prompt.
EditStep == lastMut' = "edit" /\ queue' # queue

\* C12: Edit. With an editor in the page, a click on the edit button of a row
\* removes the prompt of that row and no other, the prompts left keep their
\* order, and the editor's text becomes the text it held, a blank line and
\* the prompt's text when it held a text that is not blank, the prompt's
\* text alone when it was empty or blank.
C12_EditEffect ==
  [][(EditStep /\ hasEditor(surface)) =>
       \E idx \in DOMAIN queue :
         /\ Len(queue') = Len(queue) - 1
         /\ \A i \in DOMAIN queue' : queue'[i] = IF i < idx THEN queue[i] ELSE queue[i + 1]
         /\ input' = IF Trim(input) # <<>>
                     THEN input \o <<NL, NL>> \o queue[idx].text
                     ELSE queue[idx].text]_vars

\* The first of two queued prompts was edited while the editor held a typed
\* text: the editor holds the typed text, a blank line and the prompt's text,
\* and the second prompt is now alone in the queue.
C12_Witness ==
  /\ lastMut = "edit"
  /\ hasEditor(surface)
  /\ input = <<SP, "a", NL>> \o <<NL, NL>> \o <<"a">>
  /\ Len(queue) = 1
  /\ queue[1].id = 2

\* C13: Reload safety. A reload after an accepted submit has returned (no
\* other operation has changed the queue since) loads a queue that holds the
\* submitted prompt at its position; and a reload when no write is in flight
\* loads the sequence that was saved last.
C13_ReloadKeepsSubmitted ==
  [][Reload =>
       /\ lastMut = "submit" =>
             /\ Len(queue') >= Len(queue)
             /\ queue'[Len(queue)] = queue[Len(queue)]
       /\ (writes = <<>> /\ stored # NoValue) => queue' = stored[1]]_vars

\* C14: The monitor starts IDLE. A timer is set only by a tick whose previous
\* verdict is BUSY and whose verdict is IDLE; every other tick (IDLE to BUSY,
\* BUSY to BUSY, IDLE to IDLE, the first tick with a queue loaded from
\* storage included) sets no timer, takes no prompt, writes nothing to the
\* editor or the store, and remembers its verdict.
C14_ScheduleOnlyOnEdge ==
  /\ ~wasGenerating
  /\ [][/\ Len(timers') > Len(timers) =>
            (wasGenerating /\ ~isGenerating(dom) /\ ~wasGenerating')
        /\ wasGenerating' # wasGenerating => wasGenerating' = isGenerating(dom)
        /\ (~(wasGenerating /\ ~isGenerating(dom)) /\ ObserverTick) =>
             /\ Len(timers') = Len(timers)
             /\ wasGenerating' = isGenerating(dom)
             /\ queue' = queue /\ fires' = fires
             /\ input' = input /\ writes' = writes]_vars

\* A queue was loaded from storage, the first tick that changed the verdict
\* saw BUSY and set nothing, and the tick that saw generation end set the one
\* timer there is.
C14_Witness ==
  /\ Len(obs) = 2
  /\ obs[1].gen /\ obs[1].queued
  /\ ~obs[2].gen
  /\ ~wasGenerating
  /\ Len(timers) = 1 /\ timers[1].age = 0
  /\ fires = <<>>
  /\ lastMut = "none"

\* C15: A timer callback that finds the queue empty does nothing: it takes no
\* prompt, leaves the editor's text and the store as they are, submits
\* nothing, and the queue stays empty.
C15_EmptyFireIsNoOp ==
  [][(FireStep /\ queue = <<>>) =>
       /\ queue' = <<>>
       /\ input' = input
       /\ writes' = writes /\ stored' = stored
       /\ fires'[Len(fires')].id = 0
       /\ fires'[Len(fires')].submitted = <<>>]_vars

\* A prompt was queued when generation ended, the user removed it before the
\* timer ran, and the timer's callback has run and taken nothing.
C15_Witness ==
  /\ Len(obs) = 2 /\ ~obs[2].gen /\ obs[2].queued
  /\ lastMut \in {"delete", "edit"}
  /\ queue = <<>>
  /\ timers = <<>>
  /\ Len(fires) = 1
  /\ fires[1].id = 0 /\ fires[1].submitted = <<>>

\* C16: Every prompt in the queue is its own trimmed text and is not empty;
\* a key press over an empty or blank editor leaves the queue as it is, and
\* the prompt an accepted key press adds is the editor's text, trimmed.
C16_ItemsNotBlank ==
  /\ [](\A i \in DOMAIN queue :
          /\ queue[i].text # <<>>
          /\ Trim(queue[i].text) = queue[i].text)
  /\ [][/\ (Trim(input) = <<>> /\ queue' # queue) => ~KeyDown
        /\ Len(queue') > Len(queue) => queue'[Len(queue')].text = Trim(input)]_vars

\* Under BUSY the typed text " a\n" was accepted and queued as "a"; the
\* editor now holds a blank, which a key press would not queue.
C16_Witness ==
  /\ lastMut = "submit"
  /\ queue = <<[id |-> 1, text |-> <<"a">>]>>
  /\ isGenerating(dom)
  /\ hasEditor(surface)
  /\ input = <<SP>>
  /\ nextId <= MaxItems

\* A step in which a click on a delete button removes a prompt.
DeleteStep == lastMut' = "delete" /\ queue' # queue

\* C17: Delete. A click on the delete button of a row removes the prompt of
\* that row and no other, the prompts left keep their order and the editor's
\* text stays as it is; removeAt with an index before the first prompt or
\* past the last, saving or not, returns the queue as it is and starts no
\* write.
C17_DeleteEffect ==
  /\ [](\A index \in {-1, 0, Len(queue) + 1, Len(queue) + 2} : \A save \in BOOLEAN :
          removeAt(queue, writes, index, save) = [queue |-> queue, writes |-> writes])
  /\ [][DeleteStep =>
          /\ input' = input
          /\ \E idx \in DOMAIN queue :
               /\ Len(queue') = Len(queue) - 1
               /\ \A i \in DOMAIN queue' :
                    queue'[i] = IF i < idx THEN queue[i] ELSE queue[i + 1]]_vars

\* The second of two queued prompts was deleted while the editor held a typed
\* text: the first prompt is alone in the queue, the text is still there.
C17_Witness ==
  /\ lastMut = "delete"
  /\ Len(queue) = 1
  /\ queue[1].id = 1
  /\ nextId = 3
  /\ hasEditor(surface)
  /\ input = <<SP, "a", NL>>

\* C18: Inference is the OR of the five heuristics: isGenerating() is true if
\* and only if one heuristic or more matches the document, a heuristic that
\* throws counting as no match, and the verdict a tick remembers is that OR.
C18_InferenceIsOr ==
  /\ [](isGenerating(dom) = (\E h \in Heuristics : dom[h] = "yes"))
  /\ [][wasGenerating' # wasGenerating =>
          wasGenerating' = (\E h \in Heuristics : dom[h] = "yes")]_vars

\* C19: A key press that queues the editor's text leaves the editor empty; a
\* key press made under IDLE, or over a text that is empty once trimmed,
\* leaves the editor's text as it is.
C19_SubmitClearsInput ==
  [][/\ Len(queue') > Len(queue) => input' = <<>>
     /\ ((~isGenerating(dom) \/ Trim(input) = <<>>) /\ input' # input) => ~KeyDown]_vars

\* A second prompt was queued by a key press: the editor is empty, and the
\* write of the queue of two is in flight.
C19_Witness ==
  /\ lastMut = "submit"
  /\ hasEditor(surface)
  /\ input = <<>>
  /\ Len(queue) = 2
  /\ writes = <<queue>>

\* C20: No silent loss on edit. A click on an edit button removes a prompt
\* only if an editor was found and the prompt's text is now at the end of the
\* editor's text; with no editor in the page the queue stays as it is.
C20_EditKeepsUncopied ==
  [][EditStep =>
       /\ hasEditor(surface)
       /\ \E idx \in DOMAIN queue :
            /\ queue' = splice(queue, idx)
            /\ Len(input') >= Len(queue[idx].text)
            /\ SubSeq(input', Len(input') - Len(queue[idx].text) + 1, Len(input'))
                 = queue[idx].text]_vars

====
